---- MODULE Spec2Model ----
(***************************************************************************)
(* The ledger engine of transaction_engine (src/src/main.rs): two maps,    *)
(* accounts and transactions, and one handler per event kind.  Amounts are *)
(* rust_decimal values; they are modelled as integers counting 10^-4 units *)
(* (Decimal equality ignores the scale, so 1.0 = 1).                       *)
(***************************************************************************)
EXTENDS Integers, Sequences, FiniteSets, TLC

\* ---------------------------------------------------------------- bounds
MaxClient == 2
MaxTx == 2
MaxTextLen == 5

Clients == 1..MaxClient
TxIds == 1..MaxTx

\* ------------------------------------------------------- amounts as text
\* main.rs:257  "if d.scale() > 4"
MaxScale == 4

RECURSIVE Pow10(_)
Pow10(n) == IF n = 0 THEN 1 ELSE 10 * Pow10(n - 1)

DigitChars == <<"0", "1", "2", "3", "4", "5", "6", "7", "8", "9">>

IsDigit(ch) == \E i \in 1..10 : DigitChars[i] = ch

DigitVal(ch) == (CHOOSE i \in 1..10 : DigitChars[i] = ch) - 1

\* Option<String>: the amount column of a row.
None == [some |-> FALSE, text |-> <<>>]

Some(s) == [some |-> TRUE, text |-> s]

\* The decimal numeral of a natural number, as a sequence of characters.
RECURSIVE NatText(_)
NatText(n) ==
    IF n < 10 THEN <<DigitChars[n + 1]>>
    ELSE NatText(n \div 10) \o <<DigitChars[(n % 10) + 1]>>

\* str::trim, over the one whitespace character the model writes.
RECURSIVE TrimLeft(_)
TrimLeft(s) ==
    IF s # <<>> /\ Head(s) = " " THEN TrimLeft(Tail(s)) ELSE s

RECURSIVE TrimRight(_)
TrimRight(s) ==
    IF s # <<>> /\ s[Len(s)] = " " THEN TrimRight(SubSeq(s, 1, Len(s) - 1)) ELSE s

trim(s) == TrimRight(TrimLeft(s))

\* The value of a sequence of digit characters.
RECURSIVE DigitsValue(_)
DigitsValue(s) ==
    IF s = <<>> THEN 0
    ELSE 10 * DigitsValue(SubSeq(s, 1, Len(s) - 1)) + DigitVal(s[Len(s)])

\* Decimal::from_str on an optional sign, digits and at most one point:
\* the sign, the mantissa (all digits read as one integer) and the scale
\* (the number of digits after the point).
from_str(t) ==
    LET signed == t # <<>> /\ t[1] \in {"-", "+"}
        body   == IF signed THEN Tail(t) ELSE t
        points == {i \in 1..Len(body) : body[i] = "."}
        digs   == SelectSeq(body, IsDigit)
    IN  IF /\ Cardinality(points) <= 1
           /\ Len(digs) >= 1
           /\ Len(digs) + Cardinality(points) = Len(body)
        THEN [ok    |-> TRUE,
              neg   |-> signed /\ t[1] = "-",
              mant  |-> DigitsValue(digs),
              scale |-> IF points = {} THEN 0
                        ELSE Len(body) - (CHOOSE i \in points : TRUE)]
        ELSE [ok |-> FALSE, neg |-> FALSE, mant |-> 0, scale |-> 0]

Err == [ok |-> FALSE, v |-> 0]

Ok(v) == [ok |-> TRUE, v |-> v]

\* parse_amount with "<" for "<=" in main.rs:251.
parse_amount_accepts_zero(amount) ==
    LET t == trim(amount)
        d == from_str(t)
    IN  IF t = <<>> THEN Err
        ELSE IF ~d.ok THEN Err
        ELSE IF d.neg /\ d.mant # 0 THEN Err
        ELSE IF d.scale > MaxScale THEN Err
        ELSE Ok(d.mant * Pow10(MaxScale - d.scale))

parse_amount(amount) ==
    LET t == trim(amount)
        d == from_str(t)
    IN  IF t = <<>> THEN Err
        ELSE IF ~d.ok THEN Err
        ELSE IF d.neg \/ d.mant = 0 THEN Err
        ELSE IF d.scale > MaxScale THEN Err
        ELSE Ok(d.mant * Pow10(MaxScale - d.scale))

\* ------------------------------------------------------------ the engine
Account(av, he, lo) == [available |-> av, held |-> he, locked |-> lo]

\* #[derive(Default)] for Account
AccountDefault == Account(0, 0, FALSE)

total(acc) == acc.available + acc.held

Transaction(c, k, a, d) == [client_id |-> c, kind |-> k, amount |-> a, disputed |-> d]

Engine(accts, txs) == [accounts |-> accts, transactions |-> txs]

EmptyMap == [k \in {} |-> 0]

\* HashMap::insert
Put(m, k, v) == [x \in (DOMAIN m) \cup {k} |-> IF x = k THEN v ELSE m[x]]

is_locked(e, client_id) ==
    IF client_id \in DOMAIN e.accounts THEN e.accounts[client_id].locked ELSE FALSE

\* entry(client_id).or_insert_with(Account::default): the accounts map after
\* the call; the account returned is get_or_create_account(e, c)[c].
get_or_create_account(e, client_id) ==
    IF client_id \in DOMAIN e.accounts THEN e.accounts
    ELSE Put(e.accounts, client_id, AccountDefault)

\* The match on Option<String> and parse_amount's Result in deposit and
\* withdrawal: Err stands for the early return.
amount_of(amount) == IF amount.some THEN parse_amount(amount.text) ELSE Err

\* The kind deposit() stores in the transaction it records (main.rs:113).
deposit_kind == "Withdrawal"

\* The kind withdrawal() stores (main.rs:153).
withdrawal_kind == "Withdrawal"

\* deposit without the contains_key test of main.rs:93.
deposit_without_tx_check(e, client_id, transaction_id, amount) ==
    IF is_locked(e, client_id) THEN e
    ELSE LET a == amount_of(amount) IN
         IF ~a.ok THEN e
         ELSE LET accts == get_or_create_account(e, client_id)
                  acc   == accts[client_id]
              IN  Engine(
                    Put(accts, client_id,
                        [acc EXCEPT !.available = acc.available + a.v]),
                    Put(e.transactions, transaction_id,
                        Transaction(client_id, deposit_kind, a.v, FALSE)))

deposit(e, client_id, transaction_id, amount) ==
    IF is_locked(e, client_id) THEN e
    ELSE IF transaction_id \in DOMAIN e.transactions THEN e
    ELSE LET a == amount_of(amount) IN
         IF ~a.ok THEN e
         ELSE LET accts == get_or_create_account(e, client_id)
                  acc   == accts[client_id]
              IN  Engine(
                    Put(accts, client_id,
                        [acc EXCEPT !.available = acc.available + a.v]),
                    Put(e.transactions, transaction_id,
                        Transaction(client_id, deposit_kind, a.v, FALSE)))

\* "<=" for "<" in main.rs:143.
insufficient_or_equal(available, amount) == available <= amount

\* The operands of main.rs:143 exchanged.
insufficient_swapped(available, amount) == amount < available

\* main.rs:143  "if account.available < amount"
insufficient(available, amount) == available < amount

withdrawal(e, client_id, transaction_id, amount) ==
    IF is_locked(e, client_id) THEN e
    ELSE IF transaction_id \in DOMAIN e.transactions THEN e
    ELSE LET a == amount_of(amount) IN
         IF ~a.ok THEN e
         ELSE LET accts == get_or_create_account(e, client_id)
                  acc   == accts[client_id]
              IN  IF insufficient(acc.available, a.v)
                  THEN Engine(accts, e.transactions)
                  ELSE Engine(
                         Put(accts, client_id,
                             [acc EXCEPT !.available = acc.available - a.v]),
                         Put(e.transactions, transaction_id,
                             Transaction(client_id, withdrawal_kind, a.v, FALSE)))

\* main.rs:170 without its tests of the owner and of the kind.
dispute_eligible_any_owner(t, client_id) == ~t.disputed

\* main.rs:170 without its test of the kind.
dispute_eligible_any_kind(t, client_id) ==
    ~(t.client_id # client_id \/ t.disputed)

\* main.rs:170: the transaction can be disputed by client_id.
dispute_eligible(t, client_id) ==
    ~(t.client_id # client_id \/ t.kind # "Deposit" \/ t.disputed)

\* dispute testing the disputed flag alone, and leaving the flag as it is.
dispute_flag_forgotten(e, client_id, transaction_id) ==
    IF is_locked(e, client_id) THEN e
    ELSE IF transaction_id \notin DOMAIN e.transactions THEN e
    ELSE LET t == e.transactions[transaction_id] IN
         IF t.client_id # client_id \/ t.disputed THEN e
         ELSE LET accts == get_or_create_account(e, client_id)
                  acc   == accts[client_id]
              IN  Engine(
                    Put(accts, client_id,
                        [acc EXCEPT !.available = acc.available - t.amount,
                                    !.held = acc.held + t.amount]),
                    e.transactions)

dispute(e, client_id, transaction_id) ==
    IF is_locked(e, client_id) THEN e
    ELSE IF transaction_id \notin DOMAIN e.transactions THEN e
    ELSE LET t == e.transactions[transaction_id] IN
         IF ~dispute_eligible(t, client_id) THEN e
         ELSE LET accts == get_or_create_account(e, client_id)
                  acc   == accts[client_id]
              IN  Engine(
                    Put(accts, client_id,
                        [acc EXCEPT !.available = acc.available - t.amount,
                                    !.held = acc.held + t.amount]),
                    Put(e.transactions, transaction_id,
                        [t EXCEPT !.disputed = TRUE]))

\* main.rs:196 and main.rs:224: the transaction is under dispute by client_id.
settle_eligible(t, client_id) ==
    ~(t.client_id # client_id \/ t.kind # "Deposit" \/ ~t.disputed)

\* resolve testing the owner alone, without the test of held of main.rs:203.
resolve_unguarded(e, client_id, transaction_id) ==
    IF is_locked(e, client_id) THEN e
    ELSE IF transaction_id \notin DOMAIN e.transactions THEN e
    ELSE LET t == e.transactions[transaction_id] IN
         IF t.client_id # client_id THEN e
         ELSE LET accts == get_or_create_account(e, client_id)
                  acc   == accts[client_id]
              IN  Engine(
                    Put(accts, client_id,
                        [acc EXCEPT !.held = acc.held - t.amount,
                                    !.available = acc.available + t.amount]),
                    Put(e.transactions, transaction_id,
                        [t EXCEPT !.disputed = FALSE]))

resolve(e, client_id, transaction_id) ==
    IF is_locked(e, client_id) THEN e
    ELSE IF transaction_id \notin DOMAIN e.transactions THEN e
    ELSE LET t == e.transactions[transaction_id] IN
         IF ~settle_eligible(t, client_id) THEN e
         ELSE LET accts == get_or_create_account(e, client_id)
                  acc   == accts[client_id]
              IN  IF acc.held < t.amount THEN Engine(accts, e.transactions)
                  ELSE Engine(
                         Put(accts, client_id,
                             [acc EXCEPT !.held = acc.held - t.amount,
                                         !.available = acc.available + t.amount]),
                         Put(e.transactions, transaction_id,
                             [t EXCEPT !.disputed = FALSE]))

\* chargeback testing the owner alone, and locking before the test of held.
chargeback_locks_first(e, client_id, transaction_id) ==
    IF is_locked(e, client_id) THEN e
    ELSE IF transaction_id \notin DOMAIN e.transactions THEN e
    ELSE LET t == e.transactions[transaction_id] IN
         IF t.client_id # client_id THEN e
         ELSE LET accts  == get_or_create_account(e, client_id)
                  acc    == accts[client_id]
                  locked == Put(accts, client_id, [acc EXCEPT !.locked = TRUE])
              IN  IF acc.held < t.amount THEN Engine(locked, e.transactions)
                  ELSE Engine(
                         Put(accts, client_id,
                             [acc EXCEPT !.held = acc.held - t.amount,
                                         !.locked = TRUE]),
                         Put(e.transactions, transaction_id,
                             [t EXCEPT !.disputed = FALSE]))

chargeback(e, client_id, transaction_id) ==
    IF is_locked(e, client_id) THEN e
    ELSE IF transaction_id \notin DOMAIN e.transactions THEN e
    ELSE LET t == e.transactions[transaction_id] IN
         IF ~settle_eligible(t, client_id) THEN e
         ELSE LET accts == get_or_create_account(e, client_id)
                  acc   == accts[client_id]
              IN  IF acc.held < t.amount THEN Engine(accts, e.transactions)
                  ELSE Engine(
                         Put(accts, client_id,
                             [acc EXCEPT !.held = acc.held - t.amount,
                                         !.locked = TRUE]),
                         Put(e.transactions, transaction_id,
                             [t EXCEPT !.disputed = FALSE]))

\* InputRow, its type column already trimmed and lower-cased (main.rs:60).
InputRow(ty, c, t, a) == [type |-> ty, client |-> c, tx |-> t, amount |-> a]

apply(e, row) ==
    CASE row.type = "deposit"    -> deposit(e, row.client, row.tx, row.amount)
      [] row.type = "withdrawal" -> withdrawal(e, row.client, row.tx, row.amount)
      [] row.type = "dispute"    -> dispute(e, row.client, row.tx)
      [] row.type = "resolve"    -> resolve(e, row.client, row.tx)
      [] row.type = "chargeback" -> chargeback(e, row.client, row.tx)
      [] OTHER                   -> e

\* ------------------------------------------------------------- the state
VARIABLES
    accounts,          \* Engine.accounts: client id -> Account
    transactions,      \* Engine.transactions: transaction id -> Transaction
    last,              \* the row the loop of main applied last
    pre_accounts,      \* Engine.accounts as that row found it
    pre_transactions,  \* Engine.transactions as that row found it
    origin,            \* transaction id -> the verb whose handler recorded it
    reversed,          \* the transactions a chargeback was applied to
    reopened,          \* history of the input: transactions disputed, then resolved
    charged,           \* under SpecTracked: the clients a deposit of whom was
                       \* disputed and then charged back by two rows in a
                       \* row (see ChargedNext); under Spec it stays empty
    report,            \* what main has written to stdout after the loop
    text,              \* under SpecParse: the amount text of the run's rows
    parsed             \* under SpecParse: what parse_amount(text) returned

vars == <<accounts, transactions, last, pre_accounts, pre_transactions, origin,
          charged, reversed, reopened, report, text, parsed>>

\* The amount texts of the rows fed to deposit and withdrawal ("0" does not
\* parse to an amount).
AmountTexts == {NatText(0), NatText(1), NatText(2)}

\* The amount column: absent, or one of the texts.
AmountInputs == {None} \cup {Some(s) : s \in AmountTexts}

NoRow == InputRow("", 0, 0, None)

\* Nothing written yet: main is still in its loop over the rows.
NoReport == [written |-> FALSE, rows |-> <<>>]

\* parse_amount not called yet.
NotParsed == [ok |-> FALSE, v |-> -1]

\* Engine::default()
InitEngine ==
    /\ accounts = EmptyMap
    /\ transactions = EmptyMap
    /\ last = NoRow
    /\ pre_accounts = EmptyMap
    /\ pre_transactions = EmptyMap
    /\ origin = EmptyMap
    /\ charged = {}
    /\ reversed = {}
    /\ reopened = {}
    /\ report = NoReport

Init ==
    /\ InitEngine
    /\ text = <<>>
    /\ parsed = NotParsed

\* History of the input, not of the engine: the row being applied is
\* chargeback(c, t), the row before it was dispute(c, t), t was recorded by a
\* deposit row of c, and no such pair was applied for c before.
ChargedNext(row) ==
    IF /\ row.type = "chargeback"
       /\ last = InputRow("dispute", row.client, row.tx, None)
       /\ row.tx \in DOMAIN origin
       /\ origin[row.tx] = "deposit"
       /\ transactions[row.tx].client_id = row.client
    THEN charged \cup {row.client}
    ELSE charged

\* History of the input, not of the engine: the row being applied is
\* resolve(c, t), the row before it was dispute(c, t), and that dispute found
\* c unlocked and t a deposit of c not under dispute.
ReopenedNext(row) ==
    IF /\ row.type = "resolve"
       /\ last = InputRow("dispute", row.client, row.tx, None)
       /\ row.tx \in DOMAIN pre_transactions
       /\ origin[row.tx] = "deposit"
       /\ pre_transactions[row.tx].client_id = row.client
       /\ ~pre_transactions[row.tx].disputed
       /\ ~is_locked(Engine(pre_accounts, pre_transactions), row.client)
    THEN reopened \cup {row.tx}
    ELSE reopened

\* One turn of the loop of main (main.rs:277-281), engine.apply(row), for the
\* row the action has put in last'.
Step ==
    LET e == apply(Engine(accounts, transactions), last') IN
    /\ ~report.written
    /\ report' = report
    /\ text' = text
    /\ parsed' = parsed
    /\ accounts' = e.accounts
    /\ transactions' = e.transactions
    /\ pre_accounts' = accounts
    /\ pre_transactions' = transactions
    /\ origin' = IF last'.tx \in (DOMAIN e.transactions) \ (DOMAIN transactions)
                 THEN Put(origin, last'.tx, last'.type)
                 ELSE origin
    /\ reversed' = IF last'.type = "chargeback" /\ e # Engine(accounts, transactions)
                   THEN reversed \cup {last'.tx}
                   ELSE reversed

Deposit ==
    \E c \in Clients, t \in TxIds, a \in AmountInputs :
        /\ last' = InputRow("deposit", c, t, a)
        /\ Step
        /\ charged' = charged
        /\ reopened' = reopened

Withdrawal ==
    \E c \in Clients, t \in TxIds, a \in AmountInputs :
        /\ last' = InputRow("withdrawal", c, t, a)
        /\ Step
        /\ charged' = charged
        /\ reopened' = reopened

Dispute ==
    \E c \in Clients, t \in TxIds :
        /\ last' = InputRow("dispute", c, t, None)
        /\ Step
        /\ charged' = charged
        /\ reopened' = reopened

Resolve ==
    \E c \in Clients, t \in TxIds :
        /\ last' = InputRow("resolve", c, t, None)
        /\ Step
        /\ charged' = charged
        /\ reopened' = reopened

Chargeback ==
    \E c \in Clients, t \in TxIds :
        /\ last' = InputRow("chargeback", c, t, None)
        /\ Step
        /\ charged' = charged
        /\ reopened' = reopened

\* A row whose verb is none of the five.
UnknownVerb ==
    \E c \in Clients, t \in TxIds :
        /\ last' = InputRow("refund", c, t, None)
        /\ Step
        /\ charged' = charged
        /\ reopened' = reopened

\* Chargeback, with the history of charged kept.
TrackedChargeback ==
    \E c \in Clients, t \in TxIds :
        /\ last' = InputRow("chargeback", c, t, None)
        /\ Step
        /\ charged' = ChargedNext(last')
        /\ reopened' = reopened

\* Resolve, with the history of reopened kept.
TrackedResolve ==
    \E c \in Clients, t \in TxIds :
        /\ last' = InputRow("resolve", c, t, None)
        /\ Step
        /\ charged' = charged
        /\ reopened' = ReopenedNext(last')

\* The orders in which engine.accounts.keys() may yield the keys of a
\* HashMap (main.rs:286): any order.
KeyOrders(m) ==
    LET n == Cardinality(DOMAIN m) IN
    {o \in [1..n -> DOMAIN m] : \A i, j \in 1..n : o[i] = o[j] => i = j}

\* x put in its place in the ascending sequence s.
RECURSIVE Insert(_, _)
Insert(x, s) ==
    IF s = <<>> THEN <<x>>
    ELSE IF x <= Head(s) THEN <<x>> \o s
    ELSE <<Head(s)>> \o Insert(x, Tail(s))

\* The vector left as collected.
sort_forgotten(clients) == clients

\* clients.sort() (main.rs:287)
RECURSIVE sort(_)
sort(clients) ==
    IF clients = <<>> THEN <<>>
    ELSE Insert(Head(clients), sort(Tail(clients)))

\* One record written by main.rs:295-301.  round_dp(4) leaves a value of at
\* most 4 decimals, which every balance is, as it is.
snapshot_row(client, acc) ==
    [client    |-> client,
     available |-> acc.available,
     held      |-> acc.held,
     total     |-> total(acc),
     locked    |-> acc.locked]

\* main.rs:283-303: the end of the input; the snapshot is written.
Report ==
    /\ ~report.written
    /\ \E keys \in KeyOrders(accounts) :
          LET clients == sort([i \in 1..Len(keys) |-> keys[i]]) IN
          report' = [written |-> TRUE,
                     rows    |-> [i \in 1..Len(clients) |->
                                    snapshot_row(clients[i], accounts[clients[i]])]]
    /\ UNCHANGED <<accounts, transactions, last, pre_accounts, pre_transactions,
                   origin, charged, reversed, reopened, text, parsed>>

Next ==
    \/ Deposit
    \/ Withdrawal
    \/ Dispute
    \/ Resolve
    \/ Chargeback
    \/ UnknownVerb
    \/ Report

Spec == Init /\ [][Next]_vars

NextTracked ==
    \/ Deposit
    \/ Withdrawal
    \/ Dispute
    \/ TrackedResolve
    \/ TrackedChargeback
    \/ UnknownVerb

\* The same program, with the history variables charged and reopened recorded.
SpecTracked == Init /\ [][NextTracked]_vars

\* ------------------------------------------- parse_amount on its own
\* The characters of the amount texts tried.
TextChars == {"0", "1", ".", "-", " "}

\* The texts of the tests and of the spec: tests.rs:29, 70-73, system.rs:269,
\* spec.md section 8.
ExampleTexts ==
    {<<"0">>, <<"-", "1">>, <<>>, <<" ", " ", " ">>, <<"+", "1">>,
     <<"1", ".", "2", "3", "4", "5", "6">>, <<"1", ".", "2", "3", "4", "5">>,
     <<"1", ".", "5">>}

\* Every text of at most MaxTextLen characters of TextChars, and the examples.
Texts ==
    ExampleTexts \cup UNION {[1..n -> TextChars] : n \in 0..MaxTextLen}

InitParse ==
    /\ InitEngine
    /\ text \in Texts
    /\ parsed = NotParsed

\* parse_amount(&s) on the text.
ParseAmount ==
    /\ parsed = NotParsed
    /\ parsed' = parse_amount(text)
    /\ UNCHANGED <<accounts, transactions, last, pre_accounts, pre_transactions,
                   origin, charged, reversed, reopened, report, text>>

\* deposit,1,1,<text> or deposit,1,1 with no amount.
TextDeposit ==
    \E a \in {None, Some(text)} :
        /\ last' = InputRow("deposit", 1, 1, a)
        /\ Step
        /\ charged' = charged
        /\ reopened' = reopened

\* withdrawal,1,1,<text> or withdrawal,1,1 with no amount.
TextWithdrawal ==
    \E a \in {None, Some(text)} :
        /\ last' = InputRow("withdrawal", 1, 1, a)
        /\ Step
        /\ charged' = charged
        /\ reopened' = reopened

NextParse ==
    \/ ParseAmount
    \/ TextDeposit
    \/ TextWithdrawal

\* parse_amount on every text, alone and in a deposit and a withdrawal row.
SpecParse == InitParse /\ [][NextParse]_vars

\* ------------------------------------------------ vocabulary of the claims
\* What a reader of the accounts map sees of client c (an absent account
\* has no balances: 0, 0, unlocked).
Avail(accts, c) == IF c \in DOMAIN accts THEN accts[c].available ELSE 0

Held(accts, c) == IF c \in DOMAIN accts THEN accts[c].held ELSE 0

Locked(accts, c) == IF c \in DOMAIN accts THEN accts[c].locked ELSE FALSE

SameBalances(c) ==
    /\ Avail(accounts, c) = Avail(pre_accounts, c)
    /\ Held(accounts, c) = Held(pre_accounts, c)
    /\ Locked(accounts, c) = Locked(pre_accounts, c)

\* Before the last row, t was a transaction recorded by a deposit row of c.
WasDepositOf(t, c) ==
    /\ t \in DOMAIN pre_transactions
    /\ origin[t] = "deposit"
    /\ pre_transactions[t].client_id = c

\* The last row was dispute(c, t), applied to an unlocked c and to a deposit
\* t of c that was not under dispute.
DisputedDeposit(c, t) ==
    /\ last = InputRow("dispute", c, t, None)
    /\ WasDepositOf(t, c)
    /\ ~pre_transactions[t].disputed
    /\ ~Locked(pre_accounts, c)

C2_DisputeThenChargebackLocks ==
    [][\A c \in Clients, t \in TxIds :
          (DisputedDeposit(c, t) /\ last' = InputRow("chargeback", c, t, None)) =>
              /\ Locked(accounts', c)
              /\ Held(accounts', c) = Held(pre_accounts, c)
              /\ Avail(accounts', c) =
                    Avail(pre_accounts, c) - pre_transactions[t].amount
              /\ ~transactions'[t].disputed]_vars

\* ------------------------------------------------------------------- C3
\* C3: dispute(c, t) on an unlocked c and a deposit t of c not under dispute
\* takes the amount of t from available, adds it to held and sets
\* t.disputed, whatever available is.
C3_DisputeMovesAmountToHeld ==
    \A c \in Clients, t \in TxIds :
        DisputedDeposit(c, t) =>
            /\ Avail(accounts, c) = Avail(pre_accounts, c) - pre_transactions[t].amount
            /\ Held(accounts, c) = Held(pre_accounts, c) + pre_transactions[t].amount
            /\ transactions[t].disputed

C5_AcceptedDepositRecordsDeposit ==
    (/\ last.type = "deposit"
     /\ ~Locked(pre_accounts, last.client)
     /\ last.tx \notin DOMAIN pre_transactions
     /\ amount_of(last.amount).ok) =>
        LET c == last.client
            a == amount_of(last.amount).v
        IN  /\ c \in DOMAIN accounts
            /\ accounts[c] = Account(Avail(pre_accounts, c) + a,
                                     Held(pre_accounts, c), FALSE)
            /\ last.tx \in DOMAIN transactions
            /\ transactions[last.tx] = Transaction(c, "Deposit", a, FALSE)

\* ------------------------------------------------------------------- C6
\* C6: a withdrawal(c, t, a) on an unlocked account, with t unused and a
\* valid, is accepted (recorded) exactly when available >= a; accepted, it
\* takes exactly a from available, leaves held and locked alone, records t as
\* a Withdrawal of c with amount a, not disputed, and leaves available >= 0.
C6_WithdrawalAcceptedIffCovered ==
    (/\ last.type = "withdrawal"
     /\ ~Locked(pre_accounts, last.client)
     /\ last.tx \notin DOMAIN pre_transactions
     /\ amount_of(last.amount).ok) =>
        LET c == last.client
            a == amount_of(last.amount).v
            accepted == last.tx \in DOMAIN transactions
        IN  /\ accepted <=> Avail(pre_accounts, c) >= a
            /\ accepted =>
                 /\ c \in DOMAIN accounts
                 /\ accounts[c] = Account(Avail(pre_accounts, c) - a,
                                          Held(pre_accounts, c), FALSE)
                 /\ transactions[last.tx] = Transaction(c, "Withdrawal", a, FALSE)
                 /\ accounts[c].available >= 0

\* An accepted withdrawal of the whole available balance.
C6_Witness ==
    /\ last.type = "withdrawal"
    /\ last.tx \in (DOMAIN transactions) \ (DOMAIN pre_transactions)
    /\ Avail(pre_accounts, last.client) > 0
    /\ Avail(accounts, last.client) = 0

\* ------------------------------------------------------------------- C7
\* C7: a withdrawal of more than the client's available changes the
\* available, held and locked of no account and adds no transaction (its id
\* stays unused).
C7_OverdrawIsDropped ==
    (/\ last.type = "withdrawal"
     /\ amount_of(last.amount).ok
     /\ amount_of(last.amount).v > Avail(pre_accounts, last.client)) =>
        /\ \A c \in Clients : SameBalances(c)
        /\ transactions = pre_transactions

\* A withdrawal of more than a positive available balance, with an unused id.
C7_Witness ==
    /\ last.type = "withdrawal"
    /\ amount_of(last.amount).ok
    /\ amount_of(last.amount).v > Avail(pre_accounts, last.client)
    /\ Avail(pre_accounts, last.client) > 0
    /\ last.tx \notin DOMAIN transactions

\* ------------------------------------------------------------------- C8
\* C8: a deposit or withdrawal whose tx id is already in the transaction
\* table changes no balance, creates no account and leaves the stored
\* transaction as it was.
C8_UsedTxIdIsIgnored ==
    (/\ last.type \in {"deposit", "withdrawal"}
     /\ last.tx \in DOMAIN pre_transactions) =>
        /\ accounts = pre_accounts
        /\ transactions = pre_transactions

\* A valid deposit of a client with no account, on the id of another
\* client's transaction.
C8_Witness ==
    /\ last.type = "deposit"
    /\ amount_of(last.amount).ok
    /\ last.tx \in DOMAIN pre_transactions
    /\ pre_transactions[last.tx].client_id # last.client
    /\ last.client \notin DOMAIN pre_accounts

\* ------------------------------------------------------------------- C9
\* C9: dispute(c, t) changes the available and held of no account, and no
\* disputed flag, when t is unknown, owned by another client, of kind
\* Withdrawal, or already disputed.
C9_IneligibleDisputeChangesNothing ==
    (/\ last.type = "dispute"
     /\ \/ last.tx \notin DOMAIN pre_transactions
        \/ pre_transactions[last.tx].client_id # last.client
        \/ pre_transactions[last.tx].kind = "Withdrawal"
        \/ pre_transactions[last.tx].disputed) =>
        /\ \A c \in Clients :
              /\ Avail(accounts, c) = Avail(pre_accounts, c)
              /\ Held(accounts, c) = Held(pre_accounts, c)
        /\ DOMAIN transactions = DOMAIN pre_transactions
        /\ \A t \in DOMAIN pre_transactions :
              transactions[t].disputed = pre_transactions[t].disputed

\* The owner, unlocked and with funds, disputes its own withdrawal.
C9_Witness ==
    /\ last.type = "dispute"
    /\ last.tx \in DOMAIN pre_transactions
    /\ pre_transactions[last.tx].client_id = last.client
    /\ pre_transactions[last.tx].kind = "Withdrawal"
    /\ origin[last.tx] = "withdrawal"
    /\ ~Locked(pre_accounts, last.client)
    /\ Avail(pre_accounts, last.client) > 0

\* ------------------------------------------------------------------ C10
\* C10: resolve(c, t) and chargeback(c, t) change nothing of the engine
\* (accounts, balances, locked flags, transactions) when t is unknown, owned
\* by another client, not of kind Deposit, or not disputed.
C10_IneligibleSettleChangesNothing ==
    (/\ last.type \in {"resolve", "chargeback"}
     /\ \/ last.tx \notin DOMAIN pre_transactions
        \/ pre_transactions[last.tx].client_id # last.client
        \/ pre_transactions[last.tx].kind # "Deposit"
        \/ ~pre_transactions[last.tx].disputed) =>
        /\ accounts = pre_accounts
        /\ transactions = pre_transactions

\* The owner, unlocked, charges back its own deposit that is not disputed.
C10_Witness ==
    /\ last.type = "chargeback"
    /\ WasDepositOf(last.tx, last.client)
    /\ ~pre_transactions[last.tx].disputed
    /\ ~Locked(pre_accounts, last.client)

\* ------------------------------------------------------------------ C11
\* The last row is one the contract drops: its account is locked, its tx id
\* is used, its amount is absent or does not parse, it withdraws more than
\* is available, it names an unknown, foreign or ineligible transaction, or
\* its verb is unknown.
LastRowIsDropped ==
    LET c == last.client
        t == last.tx
        makes == last.type \in {"deposit", "withdrawal"}
        settles == last.type \in {"dispute", "resolve", "chargeback"}
    IN  /\ last # NoRow
        /\ \/ Locked(pre_accounts, c)
           \/ makes /\ t \in DOMAIN pre_transactions
           \/ makes /\ ~amount_of(last.amount).ok
           \/ /\ last.type = "withdrawal"
              /\ amount_of(last.amount).ok
              /\ amount_of(last.amount).v > Avail(pre_accounts, c)
           \/ settles /\ t \notin DOMAIN pre_transactions
           \/ /\ settles
              /\ t \in DOMAIN pre_transactions
              /\ \/ pre_transactions[t].client_id # c
                 \/ pre_transactions[t].kind # "Deposit"
                 \/ pre_transactions[t].disputed = (last.type = "dispute")
           \/ ~makes /\ ~settles

\* C11: a dropped row leaves the set of accounts, every account and the
\* whole transaction table as they were; so every account belongs to a
\* client with a recorded (accepted) deposit or withdrawal.
C11_DroppedRowChangesNothing ==
    /\ LastRowIsDropped =>
          /\ accounts = pre_accounts
          /\ transactions = pre_transactions
    /\ \A c \in DOMAIN accounts :
          \E t \in DOMAIN transactions : transactions[t].client_id = c

\* ------------------------------------------------------------------ C12
\* C12: the snapshot holds exactly one row (client, available, held,
\* total = available + held, locked) for every account of the accounts map,
\* in strictly ascending order of the client ids.
C12_SnapshotIsCompleteAndSorted ==
    report.written =>
        LET rows == report.rows IN
        /\ Len(rows) = Cardinality(DOMAIN accounts)
        /\ \A c \in DOMAIN accounts :
              \E i \in 1..Len(rows) :
                 /\ rows[i] = [client    |-> c,
                               available |-> accounts[c].available,
                               held      |-> accounts[c].held,
                               total     |-> accounts[c].available + accounts[c].held,
                               locked    |-> accounts[c].locked]
                 /\ \A j \in 1..Len(rows) : rows[j].client = c => j = i
        /\ \A i, j \in 1..Len(rows) : i < j => rows[i].client < rows[j].client

\* A snapshot of two accounts, the one of client 1 created after the one of
\* client 2, one of them with zero balances and one with funds.
C12_Witness ==
    /\ report.written
    /\ Len(report.rows) = 2
    /\ 1 \notin DOMAIN pre_accounts
    /\ 2 \in DOMAIN pre_accounts
    /\ \E i \in 1..2 : report.rows[i].total = 0
    /\ \E i \in 1..2 : report.rows[i].total > 0

\* ------------------------------------------------------------------ C13
\* The text between its first and its last character that is not a space.
Core(s) ==
    LET ink == {i \in 1..Len(s) : s[i] # " "} IN
    IF ink = {} THEN <<>>
    ELSE SubSeq(s, CHOOSE i \in ink : \A j \in ink : i <= j,
                   CHOOSE i \in ink : \A j \in ink : j <= i)

\* The numeral without its sign.
Unsigned(t) == IF t # <<>> /\ t[1] \in {"+", "-"} THEN SubSeq(t, 2, Len(t)) ELSE t

\* A decimal numeral: an optional sign, then digits with at most one point
\* among them, and one digit at least.
IsNumeral(t) ==
    LET b == Unsigned(t) IN
    /\ \A i \in 1..Len(b) : IsDigit(b[i]) \/ b[i] = "."
    /\ \E i \in 1..Len(b) : IsDigit(b[i])
    /\ \A i, j \in 1..Len(b) : (b[i] = "." /\ b[j] = ".") => i = j

\* Where the point of the unsigned numeral b is (past its end if it has none).
PointAt(b) ==
    IF \E i \in 1..Len(b) : b[i] = "." THEN CHOOSE i \in 1..Len(b) : b[i] = "."
    ELSE Len(b) + 1

\* The number of digits after the point.
FractionDigits(t) ==
    LET b == Unsigned(t) IN IF PointAt(b) > Len(b) THEN 0 ELSE Len(b) - PointAt(b)

\* The value of the first i characters of the unsigned numeral b, in 10^-4:
\* each digit weighs the power of ten of its place.
RECURSIVE PlaceValue(_, _)
PlaceValue(b, i) ==
    IF i = 0 THEN 0
    ELSE PlaceValue(b, i - 1) +
         (IF ~IsDigit(b[i]) THEN 0
          ELSE IF i < PointAt(b)
               THEN DigitVal(b[i]) * Pow10(4 + PointAt(b) - 1 - i)
               ELSE DigitVal(b[i]) * Pow10(4 - (i - PointAt(b))))

\* A valid amount: a numeral, not negative, not zero, of at most 4 digits
\* after the point.
ValidAmountText(s) ==
    LET t == Core(s) IN
    /\ IsNumeral(t)
    /\ t[1] # "-"
    /\ \E i \in 1..Len(t) : IsDigit(t[i]) /\ t[i] # "0"
    /\ FractionDigits(t) <= 4

AmountValue(s) == PlaceValue(Unsigned(Core(s)), Len(Unsigned(Core(s))))

C14_OnlyDepositsAreDisputed ==
    \A t \in DOMAIN transactions :
        /\ origin[t] = "withdrawal" =>
              /\ transactions[t].kind = "Withdrawal"
              /\ ~transactions[t].disputed
        /\ transactions[t].disputed => origin[t] = "deposit"

\* The owner of a recorded withdrawal, unlocked, has just disputed it.
C14_Witness ==
    /\ last.type = "dispute"
    /\ last.tx \in DOMAIN pre_transactions
    /\ origin[last.tx] = "withdrawal"
    /\ pre_transactions[last.tx].client_id = last.client
    /\ ~Locked(pre_accounts, last.client)

\* ------------------------------------------------------------------ C15
\* C15: a deposit t of c that was disputed and then resolved can be disputed
\* again by c: while c is unlocked and t not under dispute, dispute(c, t)
\* takes the amount of t from available, adds it to held and sets
\* t.disputed, as the first dispute did; and a transaction a chargeback was
\* applied to is never disputed again.
C15_ResolvedDepositCanBeDisputedAgain ==
    [][/\ \A c \in Clients, t \in reopened :
             (/\ last' = InputRow("dispute", c, t, None)
              /\ transactions[t].client_id = c
              /\ ~transactions[t].disputed
              /\ ~Locked(accounts, c)) =>
                 /\ Avail(accounts', c) = Avail(accounts, c) - transactions[t].amount
                 /\ Held(accounts', c) = Held(accounts, c) + transactions[t].amount
                 /\ transactions'[t].disputed
       /\ \A t \in reversed' : ~transactions'[t].disputed]_vars

\* ------------------------------------------------------------------ C16
\* C16: held is never negative, for any account, after any rows.
C16_HeldIsNeverNegative ==
    \A c \in DOMAIN accounts : accounts[c].held >= 0

\* A resolve and a chargeback by the owner of a recorded transaction have
\* been applied to an account that holds nothing.
C16_Witness ==
    /\ last.type \in {"resolve", "chargeback"}
    /\ last.tx \in DOMAIN pre_transactions
    /\ pre_transactions[last.tx].client_id = last.client
    /\ pre_transactions[last.tx].amount > 0
    /\ Held(pre_accounts, last.client) = 0
    /\ Held(accounts, last.client) = 0

\* ------------------------------------------------------------------ C17
\* The sum of the amounts of the transactions of txs whose id is in S.
RECURSIVE SumAmounts(_, _)
SumAmounts(txs, S) ==
    IF S = {} THEN 0
    ELSE LET t == CHOOSE x \in S : TRUE IN
         txs[t].amount + SumAmounts(txs, S \ {t})

\* The transactions of c that are under dispute.
DisputedOf(c) ==
    {t \in DOMAIN transactions :
        transactions[t].client_id = c /\ transactions[t].disputed}

\* C17: the held of each account is the sum of the amounts of the disputed
\* transactions of its client; so the owner of a disputed transaction holds
\* its amount at least, and a resolve or a chargeback that passes the test
\* of main.rs:196 or main.rs:224 never finds held below the amount.
C17_HeldIsSumOfDisputed ==
    /\ \A c \in DOMAIN accounts :
          accounts[c].held = SumAmounts(transactions, DisputedOf(c))
    /\ \A t \in DOMAIN transactions :
          transactions[t].disputed =>
              Held(accounts, transactions[t].client_id) >= transactions[t].amount
    /\ (/\ last.type \in {"resolve", "chargeback"}
        /\ last.tx \in DOMAIN pre_transactions
        /\ settle_eligible(pre_transactions[last.tx], last.client)
        /\ ~Locked(pre_accounts, last.client)) =>
          Held(pre_accounts, last.client) >= pre_transactions[last.tx].amount

\* The owner of a deposit has just disputed it, with funds on the account.
C17_Witness ==
    /\ last.type = "dispute"
    /\ last.tx \in DOMAIN pre_transactions
    /\ origin[last.tx] = "deposit"
    /\ pre_transactions[last.tx].client_id = last.client
    /\ Avail(pre_accounts, last.client) >= pre_transactions[last.tx].amount
    /\ accounts[last.client].held = SumAmounts(transactions, DisputedOf(last.client))

\* ------------------------------------------------------------------ C18
\* C18: a row naming client c changes no account but that of c, creates no
\* account but that of c, and changes no transaction of another client; and
\* a deposit of an unlocked c, of a fresh tx id and a valid amount, is
\* applied whatever the accounts of the others are, locked or not.
C18_ClientsAreIsolated ==
    last # NoRow =>
        /\ \A c \in Clients \ {last.client} :
              /\ c \in DOMAIN accounts <=> c \in DOMAIN pre_accounts
              /\ c \in DOMAIN accounts => accounts[c] = pre_accounts[c]
        /\ \A t \in DOMAIN pre_transactions :
              pre_transactions[t].client_id # last.client =>
                  transactions[t] = pre_transactions[t]
        /\ (/\ last.type = "deposit"
            /\ ~Locked(pre_accounts, last.client)
            /\ last.tx \notin DOMAIN pre_transactions
            /\ amount_of(last.amount).ok) =>
              Avail(accounts, last.client) =
                  Avail(pre_accounts, last.client) + amount_of(last.amount).v

\* A client has just disputed the deposit of another client, who has funds.
C18_Witness ==
    /\ last.type = "dispute"
    /\ last.tx \in DOMAIN pre_transactions
    /\ origin[last.tx] = "deposit"
    /\ pre_transactions[last.tx].client_id # last.client
    /\ Avail(pre_accounts, pre_transactions[last.tx].client_id) > 0

\* ------------------------------------------------------------------ C19
\* The transactions of c recorded by the handler of the verb.
RecordedBy(verb, c) ==
    {t \in DOMAIN transactions :
        transactions[t].client_id = c /\ origin[t] = verb}

\* The transactions of c a chargeback was applied to.
ReversedOf(c) ==
    {t \in reversed : transactions[t].client_id = c}

\* C19: available + held of each account is the sum of the accepted deposits
\* of its client, less its accepted withdrawals, less its charged-back
\* deposits; and a dispute or resolve row changes available + held of no
\* account.
C19_FundsAreConserved ==
    /\ \A c \in DOMAIN accounts :
          total(accounts[c]) =
              SumAmounts(transactions, RecordedBy("deposit", c))
              - SumAmounts(transactions, RecordedBy("withdrawal", c))
              - SumAmounts(transactions, ReversedOf(c))
    /\ last.type \in {"dispute", "resolve"} =>
          \A c \in Clients :
              Avail(accounts, c) + Held(accounts, c) =
                  Avail(pre_accounts, c) + Held(pre_accounts, c)

\* A client with an accepted deposit and an accepted withdrawal, and funds
\* left, has just disputed or resolved one of its transactions.
C19_Witness ==
    /\ last.type \in {"dispute", "resolve"}
    /\ last.tx \in DOMAIN pre_transactions
    /\ pre_transactions[last.tx].client_id = last.client
    /\ RecordedBy("deposit", last.client) # {}
    /\ RecordedBy("withdrawal", last.client) # {}
    /\ Avail(accounts, last.client) > 0

====
